---- MODULE Spec2Model ----
(***************************************************************************)
(* Model of copilot_api_server.py: the Flask handlers execute_copilot,     *)
(* commit_and_push and copilot_commit_push_workflow, the request           *)
(* validation in front of them and the CopilotExecutor they drive.         *)
(*                                                                         *)
(* Python strings are sequences of one-character strings, so that          *)
(* str.split, str.join, os.path.join and substring tests are computed      *)
(* character by character.  Lists of strings are sequences of those.       *)
(* The timestamp field of the success responses (datetime.now()) is not    *)
(* part of the state.                                                      *)
(***************************************************************************)
EXTENDS Integers, Sequences, FiniteSets, TLC

(* ------------------------------ bounds -------------------------------- *)
\* longest value of the ALLOWED_REPOS environment variable that is tried
MaxEnvLen == 2
\* a process exits with a return code in 0 .. MaxExit
MaxExit == 1
\* longest explicit file list of a request
MaxFiles == 2

(* --------------------------- string literals --------------------------- *)
Comma == ","
Slash == "/"
\* default of os.getenv('REPOS_BASE_PATH', '/var/repos')
REPOS_BASE_PATH == <<"/","v","a","r","/","r","e","p","o","s">>
DotGit == <<".","g","i","t">>
TimeoutMsg == <<"C","o","m","m","a","n","d"," ","t","i","m","e","d"," ","o","u","t"," ","a","f","t","e","r"," ","5"," ","m","i","n","u","t","e","s">>
MsgRepoNameRequired == <<"r","e","p","o","_","n","a","m","e"," ","i","s"," ","r","e","q","u","i","r","e","d">>
MsgRepository == <<"R","e","p","o","s","i","t","o","r","y"," ">>
MsgIsNotAllowed == <<" ","i","s"," ","n","o","t"," ","a","l","l","o","w","e","d">>
MsgPromptRequired == <<"p","r","o","m","p","t"," ","i","s"," ","r","e","q","u","i","r","e","d">>
MsgCommitMessageRequired == <<"c","o","m","m","i","t","_","m","e","s","s","a","g","e"," ","i","s"," ","r","e","q","u","i","r","e","d">>
MsgPathDoesNotExist == <<"R","e","p","o","s","i","t","o","r","y"," ","p","a","t","h"," ","d","o","e","s"," ","n","o","t"," ","e","x","i","s","t",":"," ">>
MsgNotAGitRepository == <<"N","o","t"," ","a"," ","g","i","t"," ","r","e","p","o","s","i","t","o","r","y",":"," ">>
MsgFailedToStage == <<"F","a","i","l","e","d"," ","t","o"," ","s","t","a","g","e"," ","f","i","l","e","s">>
MsgFailedToCommit == <<"F","a","i","l","e","d"," ","t","o"," ","c","o","m","m","i","t">>
MsgFailedToPush == <<"F","a","i","l","e","d"," ","t","o"," ","p","u","s","h">>
MsgCopilotFailed == <<"C","o","p","i","l","o","t"," ","e","x","e","c","u","t","i","o","n"," ","f","a","i","l","e","d">>
MsgCommitPushOk == <<"C","h","a","n","g","e","s"," ","c","o","m","m","i","t","t","e","d"," ","a","n","d"," ","p","u","s","h","e","d"," ","s","u","c","c","e","s","s","f","u","l","l","y">>
MsgWorkflowOk == <<"C","o","p","i","l","o","t"," ","w","o","r","k","f","l","o","w"," ","c","o","m","p","l","e","t","e","d"," ","s","u","c","c","e","s","s","f","u","l","l","y">>
\* str(e) of the AttributeError raised by data.get when the JSON body is null
MsgNoneTypeGet == <<"'","N","o","n","e","T","y","p","e","'"," ","o","b","j","e","c","t"," ","h","a","s"," ","n","o"," ","a","t","t","r","i","b","u","t","e"," ","'","g","e","t","'">>

\* the value of a str-typed local that holds Python's None
None == <<"None">>
\* the value of a list-typed local that holds Python's None
NoneList == <<None>>

(* ---------------------------- str operations --------------------------- *)
\* Python truthiness of a str-typed value: None and '' are falsy
Truthy(s) == s # None /\ s # <<>>
\* Python truthiness of a list-typed value: None and [] are falsy
TruthyList(l) == l # NoneList /\ l # <<>>

\* index of the first occurrence of character c in s, 0 when there is none
IndexOf(s, c) ==
    IF \E i \in 1..Len(s) : s[i] = c
    THEN CHOOSE i \in 1..Len(s) : s[i] = c /\ \A j \in 1..(i-1) : s[j] # c
    ELSE 0

RECURSIVE Split(_, _)
\* s.split(c): the fields between the separators, empty fields included
Split(s, c) ==
    IF IndexOf(s, c) = 0
    THEN <<s>>
    ELSE <<SubSeq(s, 1, IndexOf(s, c) - 1)>>
         \o Split(SubSeq(s, IndexOf(s, c) + 1, Len(s)), c)

RECURSIVE Join(_, _)
\* c.join(l): the items of l with c between neighbours
Join(l, c) ==
    IF l = <<>> THEN <<>>
    ELSE IF Len(l) = 1 THEN l[1]
    ELSE l[1] \o <<c>> \o Join(Tail(l), c)

\* sub in s
Contains(s, sub) ==
    \E i \in 0..(Len(s) - Len(sub)) : SubSeq(s, i + 1, i + Len(sub)) = sub

\* posixpath.join(a, b)
PathJoin(a, b) ==
    IF b # <<>> /\ b[1] = Slash THEN b
    ELSE IF a = <<>> \/ a[Len(a)] = Slash THEN a \o b
    ELSE a \o <<Slash>> \o b

(* ------------------------- values of the inputs ------------------------ *)
\* the characters an ALLOWED_REPOS value is made of
EnvAlphabet == {"a", Comma}
RECURSIVE StringsUpTo(_, _)
\* all strings over alphabet of length at most n
StringsUpTo(alphabet, n) ==
    IF n = 0 THEN {<<>>}
    ELSE StringsUpTo(alphabet, n - 1)
         \cup {Append(s, c) : s \in StringsUpTo(alphabet, n - 1), c \in alphabet}
\* the values of the ALLOWED_REPOS environment variable that are tried
EnvValues == StringsUpTo(EnvAlphabet, MaxEnvLen)

\* repo_name values of a request: '', a, b, c and the absolute path /t
RepoNames == {<<>>, <<"a">>, <<"b">>, <<"c">>, <<"/","t">>}
Prompts == {<<>>, <<"p">>}
CommitMessages == {<<>>, <<"f","i","x">>}
Branches == {<<"m","a","i","n">>}
FileNames == {<<"x">>, <<"y">>}
RECURSIVE ListsUpTo(_, _)
\* all lists over items of length at most n
ListsUpTo(items, n) ==
    IF n = 0 THEN {<<>>}
    ELSE ListsUpTo(items, n - 1)
         \cup {Append(l, x) : l \in ListsUpTo(items, n - 1), x \in items}
FileLists == ListsUpTo(FileNames, MaxFiles)

Fields == {"repo_name", "prompt", "commit_message", "branch", "files"}
\* one key of a JSON body: absent, or present with a value of vals
Opt(vals) == {[has |-> FALSE, v |-> <<>>]} \cup {[has |-> TRUE, v |-> x] : x \in vals}
\* the dict with the keys that are present
MkData(rn, p, cm, b, f) ==
    LET all == [repo_name |-> rn, prompt |-> p, commit_message |-> cm,
                branch |-> b, files |-> f]
    IN  [k \in {k \in Fields : all[k].has} |-> all[k].v]
\* the JSON objects a request body can be
Bodies ==
    {MkData(rn, p, cm, b, f) : rn \in Opt(RepoNames), p \in Opt(Prompts),
         cm \in Opt(CommitMessages), b \in Opt(Branches), f \in Opt(FileLists)}
Endpoints == {"execute", "commit_and_push", "workflow"}

\* data.get(k) of a str-typed key
Get(data, k) == IF k \in DOMAIN data THEN data[k] ELSE None
\* data.get('files', default)
GetFiles(data, default) == IF "files" \in DOMAIN data THEN data["files"] ELSE default

(* ------------------------- the world outside --------------------------- *)
\* the paths that exist on the server: repository a is a git checkout,
\* b is a plain directory, c does not exist
FsPaths ==
    {REPOS_BASE_PATH,
     PathJoin(REPOS_BASE_PATH, <<"a">>),
     PathJoin(PathJoin(REPOS_BASE_PATH, <<"a">>), DotGit),
     PathJoin(REPOS_BASE_PATH, <<"b">>)}
\* os.path.exists(path)
PathExists(path) == path \in FsPaths

Stdouts == {<<>>, <<"o">>}
Stderrs == {<<>>, <<"e">>}
ExitCodes == 0..MaxExit
\* str(e) of the exceptions subprocess.run raises when it cannot launch
LaunchErrors == {<<"E","N","O","E","N","T">>}
\* what subprocess.run can do: return a CompletedProcess, raise
\* TimeoutExpired, or raise another Exception
Outcomes ==
    [kind : {"exit"}, returncode : ExitCodes, stdout : Stdouts, stderr : Stderrs]
    \cup {[kind |-> "timeout"]}
    \cup [kind : {"error"}, msg : LaunchErrors]

(* ---------------------------- CopilotExecutor -------------------------- *)
\* validate_repo with the test for .git before the test for the path
validate_repo_GitFirst(repo_path) ==
    IF ~PathExists(PathJoin(repo_path, DotGit))
    THEN [ok |-> FALSE, error |-> MsgNotAGitRepository \o repo_path,
          checked |-> <<PathJoin(repo_path, DotGit)>>]
    ELSE IF ~PathExists(repo_path)
    THEN [ok |-> FALSE, error |-> MsgPathDoesNotExist \o repo_path,
          checked |-> <<PathJoin(repo_path, DotGit), repo_path>>]
    ELSE [ok |-> TRUE, error |-> <<>>,
          checked |-> <<PathJoin(repo_path, DotGit), repo_path>>]

\* validate_repo without the test for .git
validate_repo_NoGitCheck(repo_path) ==
    IF ~PathExists(repo_path)
    THEN [ok |-> FALSE, error |-> MsgPathDoesNotExist \o repo_path,
          checked |-> <<repo_path>>]
    ELSE [ok |-> TRUE, error |-> <<>>,
          checked |-> <<repo_path, PathJoin(repo_path, DotGit)>>]

\* validate_repo: the ValueError it raises (ok = FALSE) and the paths it
\* has looked up
validate_repo(repo_path) ==
    IF ~PathExists(repo_path)
    THEN [ok |-> FALSE, error |-> MsgPathDoesNotExist \o repo_path,
          checked |-> <<repo_path>>]
    ELSE IF ~PathExists(PathJoin(repo_path, DotGit))
    THEN [ok |-> FALSE, error |-> MsgNotAGitRepository \o repo_path,
          checked |-> <<repo_path, PathJoin(repo_path, DotGit)>>]
    ELSE [ok |-> TRUE, error |-> <<>>,
          checked |-> <<repo_path, PathJoin(repo_path, DotGit)>>]

\* run_command with success set for every process that exited
run_command_ExitIsSuccess(o) ==
    IF o.kind = "exit"
    THEN [raised |-> FALSE, exc |-> <<>>,
          value |-> [success |-> TRUE, stdout |-> o.stdout,
                     stderr |-> o.stderr, returncode |-> o.returncode]]
    ELSE IF o.kind = "timeout"
    THEN [raised |-> FALSE, exc |-> <<>>,
          value |-> [success |-> FALSE, stdout |-> <<>>,
                     stderr |-> TimeoutMsg, returncode |-> -1]]
    ELSE [raised |-> FALSE, exc |-> <<>>,
          value |-> [success |-> FALSE, stdout |-> <<>>,
                     stderr |-> o.msg, returncode |-> -1]]

\* run_command without the clause except Exception
run_command_NoExcept(o) ==
    IF o.kind = "exit"
    THEN [raised |-> FALSE, exc |-> <<>>,
          value |-> [success |-> (o.returncode = 0), stdout |-> o.stdout,
                     stderr |-> o.stderr, returncode |-> o.returncode]]
    ELSE IF o.kind = "timeout"
    THEN [raised |-> FALSE, exc |-> <<>>,
          value |-> [success |-> FALSE, stdout |-> <<>>,
                     stderr |-> TimeoutMsg, returncode |-> -1]]
    ELSE [raised |-> TRUE, exc |-> o.msg, value |-> <<>>]

\* run_command, given what subprocess.run did: raised tells whether an
\* exception leaves run_command, value is the dict it returns
run_command(o) ==
    IF o.kind = "exit"
    THEN [raised |-> FALSE, exc |-> <<>>,
          value |-> [success |-> (o.returncode = 0), stdout |-> o.stdout,
                     stderr |-> o.stderr, returncode |-> o.returncode]]
    ELSE IF o.kind = "timeout"
    THEN [raised |-> FALSE, exc |-> <<>>,
          value |-> [success |-> FALSE, stdout |-> <<>>,
                     stderr |-> TimeoutMsg, returncode |-> -1]]
    ELSE [raised |-> FALSE, exc |-> <<>>,
          value |-> [success |-> FALSE, stdout |-> <<>>,
                     stderr |-> o.msg, returncode |-> -1]]

\* the Copilot command with the prompt in front of the --files flag
execute_copilot_command_PromptFirst(prompt, files) ==
    <<<<"g","h">>, <<"c","o","p","i","l","o","t">>, <<"s","u","g","g","e","s","t">>>>
    \o <<prompt>>
    \o (IF TruthyList(files)
        THEN <<<<"-","-","f","i","l","e","s">>, Join(files, Comma)>>
        ELSE <<>>)

\* the command CopilotExecutor.execute_copilot builds
execute_copilot_command(prompt, files) ==
    <<<<"g","h">>, <<"c","o","p","i","l","o","t">>, <<"s","u","g","g","e","s","t">>>>
    \o (IF TruthyList(files)
        THEN <<<<"-","-","f","i","l","e","s">>, Join(files, Comma)>>
        ELSE <<>>)
    \o <<prompt>>

\* the command git_status runs
git_status_command ==
    <<<<"g","i","t">>, <<"s","t","a","t","u","s">>,
      <<"-","-","p","o","r","c","e","l","a","i","n">>>>

\* git_add with the test "files is not None"
git_add_command_IsNotNone(files) ==
    IF files # NoneList
    THEN <<<<"g","i","t">>, <<"a","d","d">>>> \o files
    ELSE <<<<"g","i","t">>, <<"a","d","d">>, <<"-","A">>>>

\* the command git_add builds
git_add_command(files) ==
    IF TruthyList(files)
    THEN <<<<"g","i","t">>, <<"a","d","d">>>> \o files
    ELSE <<<<"g","i","t">>, <<"a","d","d">>, <<"-","A">>>>

\* the command git_commit builds
git_commit_command(message) ==
    <<<<"g","i","t">>, <<"c","o","m","m","i","t">>, <<"-","m">>, message>>

Origin == <<"o","r","i","g","i","n">>
\* the command git_push builds
git_push_command(branch, remote) ==
    <<<<"g","i","t">>, <<"p","u","s","h">>, remote>>
    \o (IF Truthy(branch) THEN <<branch>> ELSE <<>>)

(* -------------------------------- state -------------------------------- *)
VARIABLES
    ALLOWED_REPOS,  \* the module global: the environment value, split
    pc,             \* pc[r]: where the handler of request r stands
    request,        \* request[r]: the endpoint called and the JSON body
    repo_path,      \* repo_path[r]: the handler's local repo_path
    locals,         \* locals[r]: the handler's locals that hold a command result
    results,        \* results[r]: the dict results / workflow_results, in insertion order
    response,       \* response[r]: the HTTP status and the JSON body returned
    launches,       \* every subprocess.run call so far, in order
    fsChecks        \* every os.path.exists call so far, in order

vars == <<ALLOWED_REPOS, pc, request, repo_path, locals, results, response,
          launches, fsChecks>>

Reqs == DOMAIN pc
NoRequest == [endpoint |-> "none", is_object |-> FALSE, data |-> <<>>]
NoResponse == [status |-> 0, body |-> <<>>]

\* validate_request(data): the pair (is_valid, error_msg)
validate_request(data) ==
    LET repo_name == Get(data, "repo_name") IN
    IF ~Truthy(repo_name)
    THEN [is_valid |-> FALSE, error_msg |-> MsgRepoNameRequired]
    ELSE IF /\ ALLOWED_REPOS # <<>>
            /\ ALLOWED_REPOS[1] # <<>>
            /\ \A i \in 1..Len(ALLOWED_REPOS) : ALLOWED_REPOS[i] # repo_name
    THEN [is_valid |-> FALSE,
          error_msg |-> MsgRepository \o repo_name \o MsgIsNotAllowed]
    ELSE [is_valid |-> TRUE, error_msg |-> None]

\* a handler that builds the answer to an invalid request without returning
Respond_NoReturn(r, status, body) ==
    /\ response' = [response EXCEPT ![r] = [status |-> status, body |-> body]]
    /\ pc' = [pc EXCEPT ![r] = IF status = 400 THEN @ ELSE "done"]

\* a handler that runs a failed step again instead of returning
Respond_Retry(r, status, body) ==
    /\ response' = [response EXCEPT ![r] = [status |-> status, body |-> body]]
    /\ pc' = [pc EXCEPT ![r] =
                IF status = 500 /\ @ \in {"copilot", "add", "commit", "push"}
                THEN @ ELSE "done"]

\* a handler returns jsonify(body), status
Respond(r, status, body) ==
    /\ response' = [response EXCEPT ![r] = [status |-> status, body |-> body]]
    /\ pc' = [pc EXCEPT ![r] = "done"]

\* a handler goes on to its next statement
Goto(r, label) ==
    /\ pc' = [pc EXCEPT ![r] = label]
    /\ UNCHANGED response

\* the record of one subprocess.run call of request r: its arguments and
\* what the call did
Launch(r, command, o) ==
    [req |-> r, command |-> command, cwd |-> repo_path[r], outcome |-> o]

\* subprocess.run under a lock on the repository, held from the stage
\* command of a request to its answer
Spawn_Locked(r, command, o) ==
    /\ \A q \in DOMAIN pc \ {r} :
           ~(repo_path[q] = repo_path[r] /\ pc[q] \in {"commit", "push"})
    /\ launches' = Append(launches, Launch(r, command, o))

\* a failed push is followed by git reset --soft HEAD~1
Spawn_Rollback(r, command, o) ==
    launches' = Append(launches, Launch(r, command, o))
        \o (IF command[2] = <<"p","u","s","h">>
                /\ ~(o.kind = "exit" /\ o.returncode = 0)
            THEN <<Launch(r, <<<<"g","i","t">>, <<"r","e","s","e","t">>,
                               <<"-","-","s","o","f","t">>,
                               <<"H","E","A","D","~","1">>>>,
                          [kind |-> "exit", returncode |-> 0,
                           stdout |-> <<>>, stderr |-> <<>>])>>
            ELSE <<>>)

\* subprocess.run is called for request r: the call is recorded
Spawn(r, command, o) ==
    launches' = Append(launches, Launch(r, command, o))

\* the body of execute_copilot with a success that needs git status too
Execute_Response_StatusCounts(result, status) ==
    [success |-> (result.success /\ status.success),
     output |-> result.stdout,
     error |-> result.stderr,
     git_status |-> status.stdout]

\* the body execute_copilot returns after generate and git status
Execute_Response(result, status) ==
    [success |-> result.success,
     output |-> result.stdout,
     error |-> result.stderr,
     git_status |-> status.stdout]

\* the result of the Copilot step filed under the key of the stage step
CopilotKey_Add == "add"

\* the key of workflow_results that holds the result of the Copilot step
CopilotKey == "copilot"

\* a handler that takes only a timeout or a launch failure for a failure
Failed_OnlyWithoutExit(result) == result.returncode = -1

\* a handler that never tests the result of a step
Failed_Never(result) == FALSE

\* if not <step>_result['success']: the test after every workflow step
Failed(result) == ~result.success

\* the body commit_and_push returns when a step has failed
CommitPush_Failure(error, result) ==
    [error |-> error, details |-> result.stderr]

\* the failure body with the results as they were before the failed step
Workflow_Failure_BeforeStep(error, result, workflow_results) ==
    [error |-> error, details |-> result.stderr,
     workflow_results |-> SubSeq(workflow_results, 1, Len(workflow_results) - 1)]

\* the body copilot_commit_push_workflow returns when a step has failed
Workflow_Failure(error, result, workflow_results) ==
    [error |-> error, details |-> result.stderr,
     workflow_results |-> workflow_results]

\* the server as started, before the requests of reqs arrive
InitFor(reqs) ==
    /\ ALLOWED_REPOS \in {Split(e, Comma) : e \in EnvValues}
    /\ pc = [r \in reqs |-> "idle"]
    /\ request = [r \in reqs |-> NoRequest]
    /\ repo_path = [r \in reqs |-> <<>>]
    /\ locals = [r \in reqs |-> <<>>]
    /\ results = [r \in reqs |-> <<>>]
    /\ response = [r \in reqs |-> NoResponse]
    /\ launches = <<>>
    /\ fsChecks = <<>>

Init == InitFor({1})

\* a POST arrives at one of the three routes; its body is JSON null or an object
Receive(r) ==
    /\ pc[r] = "idle"
    /\ \E e \in Endpoints :
         \/ request' = [request EXCEPT ![r] =
                [endpoint |-> e, is_object |-> FALSE, data |-> <<>>]]
         \/ \E d \in Bodies :
              request' = [request EXCEPT ![r] =
                [endpoint |-> e, is_object |-> TRUE, data |-> d]]
    /\ pc' = [pc EXCEPT ![r] = "validate_request"]
    /\ UNCHANGED <<ALLOWED_REPOS, repo_path, locals, results, response,
                   launches, fsChecks>>

\* repo_path = os.path.join(...); executor.validate_repo(), and the except
\* clause of the handler when it raises
ValidateRepoStep(r, next) ==
    LET path == PathJoin(REPOS_BASE_PATH, request[r].data["repo_name"])
        v == validate_repo(path)
    IN  /\ repo_path' = [repo_path EXCEPT ![r] = path]
        /\ fsChecks' = fsChecks \o [i \in 1..Len(v.checked) |->
                                      [req |-> r, path |-> v.checked[i]]]
        /\ IF v.ok THEN Goto(r, next)
           ELSE Respond(r, 500, [error |-> v.error])
        /\ UNCHANGED <<ALLOWED_REPOS, request, locals, results, launches>>

(* ---------------------- POST /api/copilot/execute ---------------------- *)
\* execute_copilot up to the prompt check
Execute_Validate(r) ==
    /\ pc[r] = "validate_request" /\ request[r].endpoint = "execute"
    /\ IF ~request[r].is_object
       THEN Respond(r, 500, [error |-> MsgNoneTypeGet])
       ELSE LET data == request[r].data
                v == validate_request(data)
            IN  IF ~v.is_valid THEN Respond(r, 400, [error |-> v.error_msg])
                ELSE IF ~Truthy(Get(data, "prompt"))
                THEN Respond(r, 400, [error |-> MsgPromptRequired])
                ELSE Goto(r, "validate_repo")
    /\ UNCHANGED <<ALLOWED_REPOS, request, repo_path, locals, results,
                   launches, fsChecks>>

Execute_ValidateRepo(r) ==
    /\ pc[r] = "validate_repo" /\ request[r].endpoint = "execute"
    /\ ValidateRepoStep(r, "copilot")

\* result = executor.execute_copilot(prompt, files)
Execute_Copilot(r) ==
    /\ pc[r] = "copilot" /\ request[r].endpoint = "execute"
    /\ \E o \in Outcomes :
         LET data == request[r].data
             command == execute_copilot_command(Get(data, "prompt"),
                                                GetFiles(data, <<>>))
             rc == run_command(o)
         IN  /\ Spawn(r, command, o)
             /\ IF rc.raised
                THEN /\ Respond(r, 500, [error |-> rc.exc])
                     /\ UNCHANGED locals
                ELSE /\ locals' = [locals EXCEPT ![r] = ("result" :> rc.value) @@ @]
                     /\ Goto(r, "status")
    /\ UNCHANGED <<ALLOWED_REPOS, request, repo_path, results, fsChecks>>

\* status = executor.git_status() and the response
Execute_Status(r) ==
    /\ pc[r] = "status" /\ request[r].endpoint = "execute"
    /\ \E o \in Outcomes :
         LET rc == run_command(o)
             result == locals[r]["result"]
         IN  /\ Spawn(r, git_status_command, o)
             /\ IF rc.raised
                THEN /\ Respond(r, 500, [error |-> rc.exc])
                     /\ UNCHANGED locals
                ELSE /\ locals' = [locals EXCEPT ![r] = ("status" :> rc.value) @@ @]
                     /\ Respond(r, 200, Execute_Response(result, rc.value))
    /\ UNCHANGED <<ALLOWED_REPOS, request, repo_path, results, fsChecks>>

(* -------------------- POST /api/git/commit-and-push -------------------- *)
\* commit_and_push up to the commit_message check
CommitPush_Validate(r) ==
    /\ pc[r] = "validate_request" /\ request[r].endpoint = "commit_and_push"
    /\ IF ~request[r].is_object
       THEN Respond(r, 500, [error |-> MsgNoneTypeGet])
       ELSE LET data == request[r].data
                v == validate_request(data)
            IN  IF ~v.is_valid THEN Respond(r, 400, [error |-> v.error_msg])
                ELSE IF ~Truthy(Get(data, "commit_message"))
                THEN Respond(r, 400, [error |-> MsgCommitMessageRequired])
                ELSE Goto(r, "validate_repo")
    /\ UNCHANGED <<ALLOWED_REPOS, request, repo_path, locals, results,
                   launches, fsChecks>>

CommitPush_ValidateRepo(r) ==
    /\ pc[r] = "validate_repo" /\ request[r].endpoint = "commit_and_push"
    /\ ValidateRepoStep(r, "add")

\* add_result = executor.git_add(files) and the check of its success
CommitPush_Add(r) ==
    /\ pc[r] = "add" /\ request[r].endpoint = "commit_and_push"
    /\ \E o \in Outcomes :
         LET data == request[r].data
             command == git_add_command(GetFiles(data, NoneList))
             rc == run_command(o)
         IN  /\ Spawn(r, command, o)
             /\ IF rc.raised
                THEN /\ Respond(r, 500, [error |-> rc.exc])
                     /\ UNCHANGED <<locals, results>>
                ELSE /\ locals' = [locals EXCEPT ![r] = ("add_result" :> rc.value) @@ @]
                     /\ results' = [results EXCEPT ![r] =
                            Append(@, [key |-> "add", value |-> rc.value])]
                     /\ IF Failed(rc.value)
                        THEN Respond(r, 500,
                                 CommitPush_Failure(MsgFailedToStage, rc.value))
                        ELSE Goto(r, "commit")
    /\ UNCHANGED <<ALLOWED_REPOS, request, repo_path, fsChecks>>

\* commit_result = executor.git_commit(commit_message) and the check
CommitPush_Commit(r) ==
    /\ pc[r] = "commit" /\ request[r].endpoint = "commit_and_push"
    /\ \E o \in Outcomes :
         LET data == request[r].data
             command == git_commit_command(Get(data, "commit_message"))
             rc == run_command(o)
         IN  /\ Spawn(r, command, o)
             /\ IF rc.raised
                THEN /\ Respond(r, 500, [error |-> rc.exc])
                     /\ UNCHANGED <<locals, results>>
                ELSE /\ locals' = [locals EXCEPT ![r] = ("commit_result" :> rc.value) @@ @]
                     /\ results' = [results EXCEPT ![r] =
                            Append(@, [key |-> "commit", value |-> rc.value])]
                     /\ IF Failed(rc.value)
                        THEN Respond(r, 500,
                                 CommitPush_Failure(MsgFailedToCommit, rc.value))
                        ELSE Goto(r, "push")
    /\ UNCHANGED <<ALLOWED_REPOS, request, repo_path, fsChecks>>

\* push_result = executor.git_push(branch), the check and the success response
CommitPush_Push(r) ==
    /\ pc[r] = "push" /\ request[r].endpoint = "commit_and_push"
    /\ \E o \in Outcomes :
         LET data == request[r].data
             command == git_push_command(Get(data, "branch"), Origin)
             rc == run_command(o)
         IN  /\ Spawn(r, command, o)
             /\ IF rc.raised
                THEN /\ Respond(r, 500, [error |-> rc.exc])
                     /\ UNCHANGED <<locals, results>>
                ELSE /\ locals' = [locals EXCEPT ![r] = ("push_result" :> rc.value) @@ @]
                     /\ results' = [results EXCEPT ![r] =
                            Append(@, [key |-> "push", value |-> rc.value])]
                     /\ IF Failed(rc.value)
                        THEN Respond(r, 500,
                                 CommitPush_Failure(MsgFailedToPush, rc.value))
                        ELSE Respond(r, 200,
                                 [success |-> TRUE, message |-> MsgCommitPushOk,
                                  results |->
                                    [add |-> locals[r]["add_result"].stdout,
                                     commit |-> locals[r]["commit_result"].stdout,
                                     push |-> rc.value.stdout]])
    /\ UNCHANGED <<ALLOWED_REPOS, request, repo_path, fsChecks>>

(* --------------- POST /api/workflow/copilot-commit-push ---------------- *)
\* copilot_commit_push_workflow up to the commit_message check
Workflow_Validate(r) ==
    /\ pc[r] = "validate_request" /\ request[r].endpoint = "workflow"
    /\ IF ~request[r].is_object
       THEN Respond(r, 500, [error |-> MsgNoneTypeGet])
       ELSE LET data == request[r].data
                v == validate_request(data)
            IN  IF ~v.is_valid THEN Respond(r, 400, [error |-> v.error_msg])
                ELSE IF ~Truthy(Get(data, "prompt"))
                THEN Respond(r, 400, [error |-> MsgPromptRequired])
                ELSE IF ~Truthy(Get(data, "commit_message"))
                THEN Respond(r, 400, [error |-> MsgCommitMessageRequired])
                ELSE Goto(r, "validate_repo")
    /\ UNCHANGED <<ALLOWED_REPOS, request, repo_path, locals, results,
                   launches, fsChecks>>

Workflow_ValidateRepo(r) ==
    /\ pc[r] = "validate_repo" /\ request[r].endpoint = "workflow"
    /\ ValidateRepoStep(r, "copilot")

\* Step 1: copilot_result = executor.execute_copilot(prompt, files)
Workflow_Copilot(r) ==
    /\ pc[r] = "copilot" /\ request[r].endpoint = "workflow"
    /\ \E o \in Outcomes :
         LET data == request[r].data
             command == execute_copilot_command(Get(data, "prompt"),
                                                GetFiles(data, NoneList))
             rc == run_command(o)
         IN  /\ Spawn(r, command, o)
             /\ IF rc.raised
                THEN /\ Respond(r, 500, [error |-> rc.exc])
                     /\ UNCHANGED <<locals, results>>
                ELSE /\ locals' = [locals EXCEPT ![r] = ("copilot_result" :> rc.value) @@ @]
                     /\ results' = [results EXCEPT ![r] =
                            Append(@, [key |-> CopilotKey, value |-> rc.value])]
                     /\ IF Failed(rc.value)
                        THEN Respond(r, 500,
                                 Workflow_Failure(MsgCopilotFailed, rc.value, results'[r]))
                        ELSE Goto(r, "add")
    /\ UNCHANGED <<ALLOWED_REPOS, request, repo_path, fsChecks>>

\* Step 2: add_result = executor.git_add(files)
Workflow_Add(r) ==
    /\ pc[r] = "add" /\ request[r].endpoint = "workflow"
    /\ \E o \in Outcomes :
         LET data == request[r].data
             command == git_add_command(GetFiles(data, NoneList))
             rc == run_command(o)
         IN  /\ Spawn(r, command, o)
             /\ IF rc.raised
                THEN /\ Respond(r, 500, [error |-> rc.exc])
                     /\ UNCHANGED <<locals, results>>
                ELSE /\ locals' = [locals EXCEPT ![r] = ("add_result" :> rc.value) @@ @]
                     /\ results' = [results EXCEPT ![r] =
                            Append(@, [key |-> "add", value |-> rc.value])]
                     /\ IF Failed(rc.value)
                        THEN Respond(r, 500,
                                 Workflow_Failure(MsgFailedToStage, rc.value, results'[r]))
                        ELSE Goto(r, "commit")
    /\ UNCHANGED <<ALLOWED_REPOS, request, repo_path, fsChecks>>

\* Step 3: commit_result = executor.git_commit(commit_message)
Workflow_Commit(r) ==
    /\ pc[r] = "commit" /\ request[r].endpoint = "workflow"
    /\ \E o \in Outcomes :
         LET data == request[r].data
             command == git_commit_command(Get(data, "commit_message"))
             rc == run_command(o)
         IN  /\ Spawn(r, command, o)
             /\ IF rc.raised
                THEN /\ Respond(r, 500, [error |-> rc.exc])
                     /\ UNCHANGED <<locals, results>>
                ELSE /\ locals' = [locals EXCEPT ![r] = ("commit_result" :> rc.value) @@ @]
                     /\ results' = [results EXCEPT ![r] =
                            Append(@, [key |-> "commit", value |-> rc.value])]
                     /\ IF Failed(rc.value)
                        THEN Respond(r, 500,
                                 Workflow_Failure(MsgFailedToCommit, rc.value, results'[r]))
                        ELSE Goto(r, "push")
    /\ UNCHANGED <<ALLOWED_REPOS, request, repo_path, fsChecks>>

\* Step 4: push_result = executor.git_push(branch) and the success response
Workflow_Push(r) ==
    /\ pc[r] = "push" /\ request[r].endpoint = "workflow"
    /\ \E o \in Outcomes :
         LET data == request[r].data
             command == git_push_command(Get(data, "branch"), Origin)
             rc == run_command(o)
         IN  /\ Spawn(r, command, o)
             /\ IF rc.raised
                THEN /\ Respond(r, 500, [error |-> rc.exc])
                     /\ UNCHANGED <<locals, results>>
                ELSE /\ locals' = [locals EXCEPT ![r] = ("push_result" :> rc.value) @@ @]
                     /\ results' = [results EXCEPT ![r] =
                            Append(@, [key |-> "push", value |-> rc.value])]
                     /\ IF Failed(rc.value)
                        THEN Respond(r, 500,
                                 Workflow_Failure(MsgFailedToPush, rc.value, results'[r]))
                        ELSE Respond(r, 200,
                                 [success |-> TRUE, message |-> MsgWorkflowOk,
                                  workflow_results |-> results'[r]])
    /\ UNCHANGED <<ALLOWED_REPOS, request, repo_path, fsChecks>>

(* ----------------------------- specification --------------------------- *)
Next ==
    \E r \in Reqs :
        \/ Receive(r)
        \/ Execute_Validate(r)
        \/ Execute_ValidateRepo(r)
        \/ Execute_Copilot(r)
        \/ Execute_Status(r)
        \/ CommitPush_Validate(r)
        \/ CommitPush_ValidateRepo(r)
        \/ CommitPush_Add(r)
        \/ CommitPush_Commit(r)
        \/ CommitPush_Push(r)
        \/ Workflow_Validate(r)
        \/ Workflow_ValidateRepo(r)
        \/ Workflow_Copilot(r)
        \/ Workflow_Add(r)
        \/ Workflow_Commit(r)
        \/ Workflow_Push(r)

Spec == Init /\ [][Next]_vars

\* the thread that serves request r executes the next statement of its handler
HandlerStep(r) ==
    \/ Execute_Validate(r)
    \/ Execute_ValidateRepo(r)
    \/ Execute_Copilot(r)
    \/ Execute_Status(r)
    \/ CommitPush_Validate(r)
    \/ CommitPush_ValidateRepo(r)
    \/ CommitPush_Add(r)
    \/ CommitPush_Commit(r)
    \/ CommitPush_Push(r)
    \/ Workflow_Validate(r)
    \/ Workflow_ValidateRepo(r)
    \/ Workflow_Copilot(r)
    \/ Workflow_Add(r)
    \/ Workflow_Commit(r)
    \/ Workflow_Push(r)

\* a handler thread is not stopped for ever, and subprocess.run returns or
\* raises (at the latest when its timeout of 300 seconds is over); a request
\* need not arrive, so Receive is under no fairness condition
Fairness == WF_vars(HandlerStep(1))

\* the server started with ALLOWED_REPOS unset, or set to the one name a
InitFair ==
    /\ InitFor({1})
    /\ ALLOWED_REPOS \in {Split(<<>>, Comma), Split(<<"a">>, Comma)}

FairSpec == InitFair /\ [][Next]_vars /\ Fairness

(* ------------- two commit-and-push requests served at once ------------- *)
\* the bodies of the concurrent requests: commit_message fix for the
\* repository a or the plain directory b, no branch, no files
ConcurrentBodies ==
    {d \in Bodies : /\ DOMAIN d = {"repo_name", "commit_message"}
                    /\ d["repo_name"] \in {<<"a">>, <<"b">>}
                    /\ d["commit_message"] = <<"f","i","x">>}

\* a POST /api/git/commit-and-push arrives while the server may be busy with
\* another one
ReceiveConcurrent(r) ==
    /\ pc[r] = "idle"
    /\ \E d \in ConcurrentBodies :
         request' = [request EXCEPT ![r] =
            [endpoint |-> "commit_and_push", is_object |-> TRUE, data |-> d]]
    /\ pc' = [pc EXCEPT ![r] = "validate_request"]
    /\ UNCHANGED <<ALLOWED_REPOS, repo_path, locals, results, response,
                   launches, fsChecks>>

\* the server started without ALLOWED_REPOS in the environment, two
\* requests to come
InitConcurrent ==
    /\ InitFor({1, 2})
    /\ ALLOWED_REPOS = Split(<<>>, Comma)

\* the threads of the two requests run their handlers in any interleaving
NextConcurrent ==
    \E r \in Reqs :
        \/ ReceiveConcurrent(r)
        \/ CommitPush_Validate(r)
        \/ CommitPush_ValidateRepo(r)
        \/ CommitPush_Add(r)
        \/ CommitPush_Commit(r)
        \/ CommitPush_Push(r)

SpecConcurrent == InitConcurrent /\ [][NextConcurrent]_vars

(* ------------------------ what the claims speak of --------------------- *)
\* the subprocess.run calls of request r, in order
LaunchesOf(r) == SelectSeq(launches, LAMBDA l : l.req = r)
\* the os.path.exists calls of request r, in order
ChecksOf(r) == SelectSeq(fsChecks, LAMBDA c : c.req = r)

\* the workflow step a launched command belongs to
StepOf(command) ==
    IF command[1] = <<"g","h">> THEN "generate"
    ELSE IF command[2] = <<"a","d","d">> THEN "add"
    ELSE IF command[2] = <<"c","o","m","m","i","t">> THEN "commit"
    ELSE IF command[2] = <<"p","u","s","h">> THEN "push"
    ELSE "status"

\* the steps that come after a step in the workflows
LaterSteps(step) ==
    IF step = "generate" THEN {"add", "commit", "push"}
    ELSE IF step = "add" THEN {"commit", "push"}
    ELSE IF step = "commit" THEN {"push"}
    ELSE {}

\* request r is handled by one of the two multi-step workflows
IsWorkflow(r) == request[r].endpoint \in {"commit_and_push", "workflow"}
Done(r) == pc[r] = "done"
\* what subprocess.run did means the command failed
OutcomeFailed(o) == ~(o.kind = "exit" /\ o.returncode = 0)

\* C1: in commit-and-push and in the full workflow, once the command of a
\* step has failed no command is launched for that request any more: the
\* failed launch is the last one, and no command of a later step exists.
C1_ShortCircuit ==
    \A r \in Reqs : IsWorkflow(r) =>
        LET ls == LaunchesOf(r)
        IN  \A i \in 1..Len(ls) :
                OutcomeFailed(ls[i].outcome) =>
                    /\ i = Len(ls)
                    /\ \A j \in 1..Len(ls) :
                           StepOf(ls[j].command)
                               \notin LaterSteps(StepOf(ls[i].command))

\* a commit-and-push request whose stage command failed, and which is over
C1_Witness ==
    \E r \in Reqs :
        /\ request[r].endpoint = "commit_and_push" /\ Done(r)
        /\ Len(LaunchesOf(r)) = 1
        /\ StepOf(LaunchesOf(r)[1].command) = "add"
        /\ OutcomeFailed(LaunchesOf(r)[1].outcome)

\* the response of request r says that the request failed
ReportsFailure(r) ==
    /\ response[r].status # 200
    /\ "success" \in DOMAIN response[r].body => response[r].body.success = FALSE

\* C2: in commit-and-push, when stage succeeds and commit fails the response
\* reports failure and carries the partial results: exactly the entries add
\* (success) and commit (failure), no push entry.
C2_PartialResults ==
    \A r \in Reqs :
        (/\ request[r].endpoint = "commit_and_push" /\ Done(r)
         /\ Len(LaunchesOf(r)) = 2
         /\ ~OutcomeFailed(LaunchesOf(r)[1].outcome)
         /\ OutcomeFailed(LaunchesOf(r)[2].outcome))
        => /\ ReportsFailure(r)
           /\ "results" \in DOMAIN response[r].body
           /\ Len(response[r].body.results) = 2
           /\ response[r].body.results[1].key = "add"
           /\ response[r].body.results[1].value.success
           /\ response[r].body.results[2].key = "commit"
           /\ ~response[r].body.results[2].value.success

\* the locals that hold the result of a workflow command (not of git status)
WorkflowLocals == {"result", "copilot_result", "add_result", "commit_result",
                   "push_result"}

\* C3: on the three POST endpoints, whenever a workflow command (generate,
\* stage, commit, push) has failed, the response has status 500 and carries
\* the stderr of that command.
C3_CommandFailure500 ==
    \A r \in Reqs : Done(r) =>
        \A n \in DOMAIN locals[r] \cap WorkflowLocals :
            ~locals[r][n].success =>
                /\ response[r].status = 500
                /\ \E k \in DOMAIN response[r].body \cap {"error", "details"} :
                       response[r].body[k] = locals[r][n].stderr

\* C4: validate_repo comes before every subprocess: a command is launched
\* only in a resolved path that exists and holds .git, after both were
\* looked up; a request whose resolved path is missing or holds no .git ends
\* with status 500 and without any command launched.
C4_ValidateRepoFirst ==
    \A r \in Reqs :
        LET ls == LaunchesOf(r)
        IN  /\ ls # <<>> =>
                  /\ PathExists(repo_path[r])
                  /\ PathExists(PathJoin(repo_path[r], DotGit))
                  /\ Len(ChecksOf(r)) = 2
                  /\ \A i \in 1..Len(ls) : ls[i].cwd = repo_path[r]
            /\ (/\ ChecksOf(r) # <<>>
                /\ ~(/\ PathExists(repo_path[r])
                     /\ PathExists(PathJoin(repo_path[r], DotGit))))
               => /\ Done(r)
                  /\ response[r].status = 500
                  /\ ls = <<>>

\* a request for a directory that exists but holds no .git, answered
C4_Witness ==
    \E r \in Reqs :
        /\ Done(r) /\ response[r].status = 500
        /\ PathExists(repo_path[r])
        /\ ~PathExists(PathJoin(repo_path[r], DotGit))
        /\ Len(ChecksOf(r)) = 2
        /\ LaunchesOf(r) = <<>>

\* the names the configured allow-list holds
AllowListNames ==
    {ALLOWED_REPOS[i] : i \in 1..Len(ALLOWED_REPOS)} \ {<<>>}
\* a name the configured allow-list does not permit
Disallowed(name) == AllowListNames # {} /\ name \notin AllowListNames
RequiresPrompt(e) == e \in {"execute", "workflow"}
RequiresCommitMessage(e) == e \in {"commit_and_push", "workflow"}
\* the handler of r is past the request validation
PastValidation(r) == pc[r] \notin {"idle", "validate_request"}
\* nothing outside the handler has been touched for request r
Untouched(r) == ChecksOf(r) = <<>> /\ LaunchesOf(r) = <<>>

\* C5: a request with a missing or empty repo_name, a disallowed repo_name,
\* a missing or empty prompt (where required) or a missing or empty
\* commit_message (where required) gets status 400, and neither
\* validate_repo nor any command has run for it.
C5_Validation400 ==
    \A r \in Reqs :
        (/\ request[r].is_object /\ PastValidation(r)
         /\ \/ ~Truthy(Get(request[r].data, "repo_name"))
            \/ Disallowed(Get(request[r].data, "repo_name"))
            \/ RequiresPrompt(request[r].endpoint)
                 /\ ~Truthy(Get(request[r].data, "prompt"))
            \/ RequiresCommitMessage(request[r].endpoint)
                 /\ ~Truthy(Get(request[r].data, "commit_message")))
        => Done(r) /\ response[r].status = 400 /\ Untouched(r)

\* C6: whenever the allow-list holds a name, a request whose repo_name is
\* not one of the listed names gets status 400 before its path is resolved.
C6_AllowList ==
    \A r \in Reqs :
        (/\ request[r].is_object /\ PastValidation(r)
         /\ Truthy(Get(request[r].data, "repo_name"))
         /\ AllowListNames # {}
         /\ Get(request[r].data, "repo_name") \notin AllowListNames)
        => /\ Done(r) /\ response[r].status = 400
           /\ repo_path[r] = <<>> /\ Untouched(r)

\* C7: every dict run_command has returned has success = (returncode = 0).
C7_SuccessIffZero ==
    \A r \in Reqs : \A n \in DOMAIN locals[r] :
        locals[r][n].success = (locals[r][n].returncode = 0)

\* generate exited with 0 and git status timed out
C7_Witness ==
    \E r \in Reqs :
        /\ DOMAIN locals[r] = {"result", "status"}
        /\ locals[r]["result"].returncode = 0 /\ locals[r]["result"].success
        /\ LaunchesOf(r)[2].outcome.kind = "timeout"
        /\ ~locals[r]["status"].success

\* the locals of a handler that receive the results of its commands, in order
LocalOrder(e) ==
    IF e = "execute" THEN <<"result", "status">>
    ELSE IF e = "commit_and_push" THEN <<"add_result", "commit_result", "push_result">>
    ELSE <<"copilot_result", "add_result", "commit_result", "push_result">>
TimedOut == <<"t","i","m","e","d"," ","o","u","t">>

\* C8: every call of run_command hands a result to its caller; for a command
\* that timed out the result has success=false, returncode -1 and a stderr
\* that is not empty and says "timed out"; for a command that could not be
\* launched it has success=false, returncode -1 and the launch error as
\* stderr.
C8_RunCommandTotal ==
    \A r \in Reqs : \A i \in 1..Len(LaunchesOf(r)) :
        LET o == LaunchesOf(r)[i].outcome
            n == LocalOrder(request[r].endpoint)[i]
        IN  /\ n \in DOMAIN locals[r]
            /\ o.kind = "timeout" =>
                  /\ ~locals[r][n].success
                  /\ locals[r][n].returncode = -1
                  /\ locals[r][n].stderr # <<>>
                  /\ Contains(locals[r][n].stderr, TimedOut)
            /\ o.kind = "error" =>
                  /\ ~locals[r][n].success
                  /\ locals[r][n].returncode = -1
                  /\ locals[r][n].stderr = o.msg

\* generate timed out and git status could not be launched
C8_Witness ==
    \E r \in Reqs :
        /\ request[r].endpoint = "execute" /\ Done(r)
        /\ Len(LaunchesOf(r)) = 2
        /\ LaunchesOf(r)[1].outcome.kind = "timeout"
        /\ LaunchesOf(r)[2].outcome.kind = "error"

\* the request names no files: the key is absent or the list is empty
NoFileList(data) == "files" \notin DOMAIN data \/ data["files"] = <<>>
GitAddAll == <<<<"g","i","t">>, <<"a","d","d">>, <<"-","A">>>>
GitCommit(m) == <<<<"g","i","t">>, <<"c","o","m","m","i","t">>, <<"-","m">>, m>>
GitPushOrigin == <<<<"g","i","t">>, <<"p","u","s","h">>, <<"o","r","i","g","i","n">>>>

\* C9: a commit-and-push request for a valid repository without a file list
\* launches git add -A, then git commit -m <commit_message>, then git push
\* origin (nothing after origin when no branch is given), each once and in
\* this order as far as it gets; status 200 needs all three, and when all
\* three succeed the response has success=true and the stdout of each step
\* under add, commit and push.
C9_CommitPushNoFiles ==
    \A r \in Reqs :
        (/\ request[r].endpoint = "commit_and_push"
         /\ NoFileList(request[r].data)
         /\ LaunchesOf(r) # <<>>)
        => LET L == LaunchesOf(r)
               body == response[r].body
           IN  /\ Len(L) <= 3
               /\ L[1].command = GitAddAll
               /\ Len(L) >= 2 =>
                     L[2].command = GitCommit(request[r].data["commit_message"])
               /\ Len(L) = 3 => SubSeq(L[3].command, 1, 3) = GitPushOrigin
               /\ (Len(L) = 3 /\ "branch" \notin DOMAIN request[r].data) =>
                     L[3].command = GitPushOrigin
               /\ response[r].status = 200 => Len(L) = 3
               /\ (Len(L) = 3 /\ \A i \in 1..3 : ~OutcomeFailed(L[i].outcome)) =>
                     /\ response[r].status = 200
                     /\ body.success = TRUE
                     /\ body.results.add = L[1].outcome.stdout
                     /\ body.results.commit = L[2].outcome.stdout
                     /\ body.results.push = L[3].outcome.stdout

\* a request without files and branch, answered with 200, whose add and
\* commit printed different things
C9_Witness ==
    \E r \in Reqs :
        /\ request[r].endpoint = "commit_and_push" /\ Done(r)
        /\ DOMAIN request[r].data = {"repo_name", "commit_message"}
        /\ response[r].status = 200
        /\ Len(LaunchesOf(r)) = 3
        /\ LaunchesOf(r)[1].outcome.stdout # LaunchesOf(r)[2].outcome.stdout
        /\ LaunchesOf(r)[2].outcome.stdout # LaunchesOf(r)[3].outcome.stdout

\* the steps of the full workflow, in order
WorkflowSteps == <<"generate", "add", "commit", "push">>
\* the key under which the full workflow files the result of a step
KeyOfStep(step) == IF step = "generate" THEN "copilot" ELSE step

C11_StatusInformational ==
    \A r \in Reqs :
        (request[r].endpoint = "execute" /\ Len(LaunchesOf(r)) = 2)
        => /\ Done(r)
           /\ StepOf(LaunchesOf(r)[2].command) = "status"
           /\ response[r].status = 200
           /\ response[r].body.success = ~OutcomeFailed(LaunchesOf(r)[1].outcome)
           /\ response[r].body.success = locals[r]["result"].success
           /\ response[r].body.output = locals[r]["result"].stdout
           /\ response[r].body.error = locals[r]["result"].stderr

\* generate succeeded, git status failed, and the request is answered
C11_Witness ==
    \E r \in Reqs :
        /\ request[r].endpoint = "execute" /\ Done(r)
        /\ Len(LaunchesOf(r)) = 2
        /\ ~OutcomeFailed(LaunchesOf(r)[1].outcome)
        /\ OutcomeFailed(LaunchesOf(r)[2].outcome)
        /\ response[r].body.success

\* path lies below the directory base
IsUnder(path, base) ==
    /\ Len(path) > Len(base) + 1
    /\ SubSeq(path, 1, Len(base)) = base
    /\ path[Len(base) + 1] = Slash

\* C12: every repo_name that request validation accepts resolves to a path
\* below REPOS_BASE_PATH, so that the lookups of validate_repo and the
\* commands of the request stay below it.
C12_PathConfinement ==
    \A r \in Reqs :
        /\ \A i \in 1..Len(ChecksOf(r)) :
               /\ IsUnder(repo_path[r], REPOS_BASE_PATH)
               /\ IsUnder(ChecksOf(r)[i].path, REPOS_BASE_PATH)
        /\ \A i \in 1..Len(LaunchesOf(r)) :
               IsUnder(LaunchesOf(r)[i].cwd, REPOS_BASE_PATH)

\* the keys of an ordered dict, in insertion order
Keys(d) == [i \in 1..Len(d) |-> d[i].key]
\* s is the beginning of t
IsPrefix(s, t) == Len(s) <= Len(t) /\ s = SubSeq(t, 1, Len(s))

\* C13 as stated: the results of the full workflow are keyed generate, add,
\* commit, push in this order, and a fully successful full workflow returns
\* exactly these four keys.
C13_StepKeys ==
    \A r \in Reqs : request[r].endpoint = "workflow" =>
        /\ IsPrefix(Keys(results[r]), <<"generate", "add", "commit", "push">>)
        /\ response[r].status = 200 =>
              Keys(response[r].body.workflow_results)
                  = <<"generate", "add", "commit", "push">>

\* C13 amended: the results of the full workflow are keyed copilot, add,
\* commit, push in this order, and a fully successful full workflow returns
\* exactly these four keys.
C13_StepKeysAmended ==
    \A r \in Reqs : request[r].endpoint = "workflow" =>
        /\ IsPrefix(Keys(results[r]), <<"copilot", "add", "commit", "push">>)
        /\ Len(results[r]) = Len(LaunchesOf(r))
        /\ response[r].status = 200 =>
              Keys(response[r].body.workflow_results)
                  = <<"copilot", "add", "commit", "push">>

\* a full workflow that went through and is answered with 200
C13_Witness ==
    \E r \in Reqs :
        /\ request[r].endpoint = "workflow" /\ Done(r)
        /\ response[r].status = 200
        /\ Len(response[r].body.workflow_results) = 4

\* the steps of the launches of request r, in order
StepsOf(r) ==
    LET ls == LaunchesOf(r)
    IN  [i \in 1..Len(ls) |-> StepOf(ls[i].command)]

\* C14: within one request no step is launched twice, so a failed step is
\* never launched again; in the two workflows the failed launch ends the
\* request with an error status, and a failed generate of the generate-only
\* request ends in success=false.
C14_NoRetries ==
    \A r \in Reqs :
        LET ls == LaunchesOf(r)
            steps == StepsOf(r)
        IN  /\ \A i, j \in 1..Len(ls) : i # j => steps[i] # steps[j]
            /\ \A i \in 1..Len(ls) :
                   (IsWorkflow(r) /\ OutcomeFailed(ls[i].outcome))
                   => /\ i = Len(ls)
                      /\ Done(r)
                      /\ response[r].status = 500
            /\ (/\ request[r].endpoint = "execute" /\ Done(r)
                /\ ls # <<>>
                /\ OutcomeFailed(ls[1].outcome))
               => response[r].body.success = FALSE

\* a full workflow whose commit failed after generate and stage
C14_Witness ==
    \E r \in Reqs :
        /\ request[r].endpoint = "workflow" /\ Done(r)
        /\ StepsOf(r) = <<"generate", "add", "commit">>
        /\ OutcomeFailed(LaunchesOf(r)[3].outcome)

\* the commands the handlers are written to launch
IsForward(command) ==
    \/ command[1] = <<"g","h">>
    \/ /\ command[1] = <<"g","i","t">>
       /\ command[2] \in {<<"a","d","d">>, <<"c","o","m","m","i","t">>,
                          <<"p","u","s","h">>, <<"s","t","a","t","u","s">>}

\* C15: no command that undoes a completed step is ever launched: every
\* command of a workflow request is the next step of the fixed sequence, and
\* when commit has succeeded and push fails the push is the last command of
\* the request.
C15_NoRollback ==
    \A r \in Reqs : IsWorkflow(r) =>
        LET ls == LaunchesOf(r)
            steps == StepsOf(r)
        IN  /\ \A i \in 1..Len(ls) : IsForward(ls[i].command)
            /\ IsPrefix(steps,
                        IF request[r].endpoint = "workflow" THEN WorkflowSteps
                        ELSE <<"add", "commit", "push">>)
            /\ \A i \in 2..Len(ls) :
                   (steps[i] = "push" /\ OutcomeFailed(ls[i].outcome))
                   => /\ steps[i - 1] = "commit"
                      /\ ~OutcomeFailed(ls[i - 1].outcome)
                      /\ i = Len(ls)
                      /\ Done(r)

\* commit succeeded, push failed, and the request is answered
C15_Witness ==
    \E r \in Reqs :
        /\ request[r].endpoint = "commit_and_push" /\ Done(r)
        /\ response[r].status = 500
        /\ StepsOf(r) = <<"add", "commit", "push">>
        /\ ~OutcomeFailed(LaunchesOf(r)[2].outcome)
        /\ OutcomeFailed(LaunchesOf(r)[3].outcome)

\* C16: requests are not kept apart: a request that stands before its
\* stage, commit or push command can launch it whatever the other requests
\* are doing, also when they work in the same repository path; so the stage
\* command of one request can run between the stage and the commit command
\* of another (the state of C16_Witness).
C16_NoMutualExclusion ==
    \A r \in Reqs :
        pc[r] \in {"add", "commit", "push"} =>
            ENABLED (CommitPush_Add(r) \/ CommitPush_Commit(r) \/ CommitPush_Push(r))

\* in one repository path: stage of one request, then stage of another
\* request, then commit of the first
C16_Witness ==
    \E i, j, k \in 1..Len(launches) :
        /\ i < j /\ j < k
        /\ launches[i].req = launches[k].req
        /\ launches[j].req # launches[i].req
        /\ launches[i].cwd = launches[j].cwd
        /\ StepOf(launches[i].command) = "add"
        /\ StepOf(launches[j].command) = "add"
        /\ StepOf(launches[k].command) = "commit"

\* C17: validate_repo tells a path without .git from a path that does not
\* exist, and tests the path first: a request for a path that does not exist
\* is answered with the does-not-exist error after that one lookup, a request
\* for an existing path without .git with the not-a-git-repository error.
C17_DistinctValidationErrors ==
    \A r \in Reqs :
        (Done(r) /\ ChecksOf(r) # <<>> /\ LaunchesOf(r) = <<>>)
        => /\ ChecksOf(r)[1].path = repo_path[r]
           /\ ~PathExists(repo_path[r]) =>
                 /\ response[r].body.error = MsgPathDoesNotExist \o repo_path[r]
                 /\ ~IsPrefix(MsgNotAGitRepository, response[r].body.error)
                 /\ Len(ChecksOf(r)) = 1
           /\ PathExists(repo_path[r]) =>
                 /\ response[r].body.error = MsgNotAGitRepository \o repo_path[r]
                 /\ ~IsPrefix(MsgPathDoesNotExist, response[r].body.error)
                 /\ Len(ChecksOf(r)) = 2

\* a request for a path that does not exist, answered
C17_Witness ==
    \E r \in Reqs :
        /\ Done(r) /\ response[r].status = 500
        /\ Len(ChecksOf(r)) = 1
        /\ ~PathExists(repo_path[r])
        /\ IsPrefix(MsgPathDoesNotExist, response[r].body.error)

\* C18: an exception that is no repository-validation error is answered with
\* 500 and a message that does not contain the text of the exception; a
\* repository-validation error is answered with 500 and its own message.
C18_ErrorClasses ==
    \A r \in Reqs : Done(r) =>
        /\ ~request[r].is_object =>
              /\ response[r].status = 500
              /\ ~Contains(response[r].body.error, MsgNoneTypeGet)
        /\ (ChecksOf(r) # <<>> /\ LaunchesOf(r) = <<>>) =>
              /\ response[r].status = 500
              /\ \/ response[r].body.error = MsgPathDoesNotExist \o repo_path[r]
                 \/ response[r].body.error = MsgNotAGitRepository \o repo_path[r]

\* the file list of a request, [] when the key is absent
FilesOf(data) == IF "files" \in DOMAIN data THEN data["files"] ELSE <<>>

\* C19: generate launches gh copilot suggest with the prompt as last
\* argument, and in front of it --files with the file names joined by commas
\* exactly when the file list is not empty; stage launches git add with
\* exactly the named files when the list is not empty and git add -A when it
\* is absent or empty.
C19_CommandConstruction ==
    \A r \in Reqs : LET ls == LaunchesOf(r) IN \A i \in 1..Len(ls) :
        LET c == ls[i].command
            files == FilesOf(request[r].data)
        IN  /\ StepOf(c) = "generate" =>
                  /\ SubSeq(c, 1, 3) = <<<<"g","h">>, <<"c","o","p","i","l","o","t">>,
                                         <<"s","u","g","g","e","s","t">>>>
                  /\ c[Len(c)] = request[r].data["prompt"]
                  /\ IF files # <<>>
                     THEN /\ Len(c) = 6
                          /\ c[4] = <<"-","-","f","i","l","e","s">>
                          /\ Split(c[5], Comma) = files
                     ELSE Len(c) = 4
            /\ StepOf(c) = "add" =>
                  IF files # <<>>
                  THEN c = <<<<"g","i","t">>, <<"a","d","d">>>> \o files
                  ELSE c = GitAddAll

\* a full workflow with two different files that has staged them
C19_Witness ==
    \E r \in Reqs :
        /\ request[r].endpoint = "workflow"
        /\ Len(FilesOf(request[r].data)) = 2
        /\ FilesOf(request[r].data)[1] # FilesOf(request[r].data)[2]
        /\ Len(LaunchesOf(r)) >= 2
        /\ StepOf(LaunchesOf(r)[2].command) = "add"

\* the steps of the workflow that serves request r
ExpectedSteps(r) ==
    IF request[r].endpoint = "workflow" THEN WorkflowSteps
    ELSE <<"add", "commit", "push">>

\* C20: in the two workflows a step is launched only after the step before
\* it has returned success, the steps come in the fixed order, and the
\* answer is 200 with success=true only if every step was launched once, in
\* that order, and returned success.
C20_SuccessNeedsAllSteps ==
    \A r \in Reqs : IsWorkflow(r) =>
        LET ls == LaunchesOf(r)
            steps == StepsOf(r)
        IN
        /\ \A i \in 1..Len(ls) :
               /\ i <= Len(ExpectedSteps(r))
               /\ steps[i] = ExpectedSteps(r)[i]
               /\ i > 1 => ~OutcomeFailed(ls[i - 1].outcome)
        /\ response[r].status = 200 =>
               /\ response[r].body.success = TRUE
               /\ steps = ExpectedSteps(r)
               /\ \A i \in 1..Len(ls) : ~OutcomeFailed(ls[i].outcome)
        /\ ("success" \in DOMAIN response[r].body /\ response[r].body.success)
               => response[r].status = 200

\* a full workflow answered with 200 after its four steps
C20_Witness ==
    \E r \in Reqs :
        /\ request[r].endpoint = "workflow" /\ Done(r)
        /\ response[r].status = 200 /\ response[r].body.success
        /\ StepsOf(r) = WorkflowSteps

\* the most commands the handler of request r launches
MaxCommands(r) == IF request[r].endpoint = "execute" THEN 2 ELSE 4

\* request r has its answer: one of the three statuses, and it is in the
\* final state of its handler
Answered(r) == Done(r) /\ response[r].status \in {200, 400, 500}

\* request r has launched no more commands than its handler holds, the
\* generate-only request generate and then git status, and it has an answer
\* exactly when its handler is over
WithinCommands(r) ==
    LET steps == StepsOf(r)
    IN  /\ Len(steps) <= MaxCommands(r)
        /\ request[r].endpoint = "execute"
               => IsPrefix(steps, <<"generate", "status">>)
        /\ (response[r] # NoResponse) <=> Done(r)
        /\ Done(r) => Answered(r)

\* once request r is answered its answer stays as it is and it launches
\* nothing more
AnswerIsFinal(r) ==
    Done(r) => /\ response'[r] = response[r]
               /\ LaunchesOf(r)' = LaunchesOf(r)
               /\ Done(r)'

\* C21: under FairSpec (every command returns or hits its timeout, the
\* handler thread keeps running) a request that has arrived is eventually
\* answered with 200, 400 or 500; it launches at most four commands, the
\* generate-only request at most two (generate, then status); it is answered
\* once, and after the answer nothing of it changes and no command is
\* launched for it.
C21_TerminatesWithOneResponse ==
    /\ (pc[1] # "idle") ~> Answered(1)
    /\ [](\A r \in Reqs : WithinCommands(r))
    /\ [][\A r \in Reqs : AnswerIsFinal(r)]_vars

\* a full workflow that launched its four commands, the last of which hit
\* the timeout, and that is answered
C21_Witness ==
    \E r \in Reqs :
        /\ Answered(r)
        /\ Len(LaunchesOf(r)) = 4
        /\ LaunchesOf(r)[4].outcome.kind = "timeout"

====
